---- MODULE Spec2Model ----
(***************************************************************************)
(* A model of valtor's ValidatorImpl (src/validator.ts): one validator     *)
(* instance, its chain methods and the terminal get().                     *)
(*                                                                         *)
(* A JavaScript value is a record [t, n, ref]: t is its type, n its        *)
(* content, ref its object identity (0 for a primitive).  The === of the   *)
(* code is equality of these records.  A text is the sequence of its       *)
(* lines, so that stringify, generateDiff and the message layout are       *)
(* conversions the checks can tell apart.                                  *)
(***************************************************************************)
EXTENDS Integers, Sequences, FiniteSets, TLC

\* ------------------------------------------------------------------ bounds

\* The number of chain-method calls made on the instance (get() is not counted).
MaxCalls == 3

\* The length of the lists isIn and notIn are given in SpecMsg.
MaxList == 2

\* ------------------------------------------------------------------ values

Undef == [t |-> "undefined", n |-> 0, ref |-> 0]
Null == [t |-> "null", n |-> 0, ref |-> 0]
Num5 == [t |-> "number", n |-> 5, ref |-> 0]
Num6 == [t |-> "number", n |-> 6, ref |-> 0]
Str5 == [t |-> "string", n |-> 5, ref |-> 0]
\* Two distinct objects with the same content.
ObjA1 == [t |-> "object", n |-> 1, ref |-> 1]
ObjA2 == [t |-> "object", n |-> 1, ref |-> 2]

\* The values validate() is called with.
InitValues == {Undef, Null, Num5, Str5}

\* The display names validate() is called with: none, or a string.
NoName == [given |-> FALSE, text |-> ""]
Named(s) == [given |-> TRUE, text |-> s]
InitNames == {NoName}

\* ------------------------------------------------------------------ options

\* options?: NullableOptions.  given = FALSE is an omitted argument; allowNull
\* is the set holding the field's value, empty when the field is absent.
NoOptions == [given |-> FALSE, allowNull |-> {}]
AllowNull(b) == [given |-> TRUE, allowNull |-> {b}]
NullableOptions == {NoOptions, AllowNull(TRUE)}

\* const { allowNull = false } = options ?? {}
AllowNullOf(options) ==
  IF options.given /\ options.allowNull # {}
  THEN CHOOSE b \in options.allowNull : TRUE
  ELSE FALSE

\* options?: EqualityOptions.  The equality policy the comparator is given.
NoEqOptions == [given |-> FALSE, loose |-> FALSE]
LooseOptions == [given |-> TRUE, loose |-> TRUE]
EqualityOptions == {NoEqOptions, LooseOptions}

\* ------------------------------------------------------------------ texts

\* a + b for texts: the last line of a continues with the first line of b.
TextCat(a, b) ==
  IF a = <<>> THEN b
  ELSE IF b = <<>> THEN a
  ELSE SubSeq(a, 1, Len(a) - 1) \o <<a[Len(a)] \o b[1]>> \o Tail(b)

\* utils/stringify: a deterministic text for every value, several lines for
\* an object.
Stringify(v) ==
  CASE v.t = "undefined" -> <<"undefined">>
    [] v.t = "null" -> <<"null">>
    [] v.t = "number" -> <<IF v.n = 5 THEN "5" ELSE "6">>
    [] v.t = "string" -> <<"'5'">>
    [] OTHER -> <<"{", "  a: 1", "}">>

\* utils/is-equal: structural equality; the loose policy also identifies a
\* number with the string of the same content.
IsEqualUtil(a, b, options) ==
  IF options.given /\ options.loose
  THEN /\ a.n = b.n
       /\ \/ a.t = b.t
          \/ {a.t, b.t} = {"number", "string"}
  ELSE a.t = b.t /\ a.n = b.n

RECURSIVE CommonPrefix(_, _)
CommonPrefix(a, b) ==
  IF a # <<>> /\ b # <<>> /\ Head(a) = Head(b)
  THEN 1 + CommonPrefix(Tail(a), Tail(b))
  ELSE 0

Mark(sign, lines) == [i \in 1..Len(lines) |-> sign \o " " \o lines[i]]

\* utils/generate-diff: line by line, "+" for a line of the actual text only,
\* "-" for a line of the expected text only, " " for a common line.
GenerateDiff(actual, expected) ==
  LET p == CommonPrefix(actual, expected)
  IN  Mark(" ", SubSeq(actual, 1, p))
        \o Mark("+", SubSeq(actual, p + 1, Len(actual)))
        \o Mark("-", SubSeq(expected, p + 1, Len(expected)))

\* utils/validation-error: an error carries its message only.
ValidationError(msg) == [message |-> msg]
NoError == [message |-> <<>>]

\* ------------------------------------------------------------------ state

VARIABLES
  value,   \* this.value
  name,    \* this.name
  chain,   \* this.chain: the deferred checks, as what each closure captured
  assert,  \* this.assert: the bundle the last get() built
  opts,    \* this.opts
  value0,  \* history: the value validate() was called with
  calls,   \* history: the chain-method calls made so far, in order
  ret      \* history: what the last call returned or threw

vars == <<value, name, chain, assert, opts, value0, calls, ret>>

\* The instance as one record, for the operators below.
This ==
  [value |-> value, name |-> name, chain |-> chain, assert |-> assert,
   opts |-> opts]

\* private assert!: not assigned until the first get().
Unbuilt == [built |-> FALSE, actual |-> <<>>, subject |-> ""]

\* new ValidatorImpl(value, name)
New(v, nm) ==
  [value |-> v, name |-> nm, chain |-> <<>>, assert |-> Unbuilt,
   opts |-> [isRequired |-> FALSE, allowNull |-> FALSE]]

\* Mutant of IsValueMissing: this.value == null, whatever allowNull is.
IsValueMissingNullish(this) == this.value = Undef \/ this.value = Null

\* private get isValueMissing()
IsValueMissing(this) ==
  this.value = Undef \/ (~this.opts.allowNull /\ this.value = Null)

\* ------------------------------------------------------------------ messages

\* Mutant of Subject: this.name !== undefined ? ... : ...
SubjectOfAnyString(nm) ==
  IF nm.given
  THEN "The value of '" \o nm.text \o "'"
  ELSE "The validated value"

\* The subject clause of buildAssert: this.name ? ... : ..., and "" is falsy.
Subject(nm) ==
  IF nm.given /\ nm.text # ""
  THEN "The value of '" \o nm.text \o "'"
  ELSE "The validated value"

\* private prefixBlock(block, sign)
PrefixBlock(block, sign) ==
  [i \in 1..Len(block) |->
     IF i = 1 THEN sign \o " " \o block[i] ELSE "  " \o block[i]]

RECURSIVE JoinLines(_)
\* blocks.join('\n'); the empty list joins to the empty string, one empty line.
JoinLines(blocks) ==
  IF blocks = <<>> THEN <<"">>
  ELSE IF Len(blocks) = 1 THEN blocks[1]
  ELSE blocks[1] \o JoinLines(Tail(blocks))

\* private listify(values); "*" stands for the bullet sign.
Listify(blocks) ==
  JoinLines([i \in 1..Len(blocks) |-> PrefixBlock(blocks[i], "*")])

\* The outcome of one check: it returns, or throws an error.
Pass == [ok |-> TRUE, error |-> NoError]
Throw(msg) == [ok |-> FALSE, error |-> ValidationError(msg)]

\* buildAssert(): actual and subject are computed once, at the call.
BuildAssert(this) ==
  [built |-> TRUE, actual |-> Stringify(this.value),
   subject |-> Subject(this.name)]

\* this.assert.isRequired()
AssertIsRequired(this) ==
  IF ~this.opts.isRequired \/ ~IsValueMissing(this) THEN Pass
  ELSE Throw(TextCat(TextCat(
         <<this.assert.subject \o " is required, but received ">>,
         this.assert.actual), <<".">>))

\* Mutant of AssertIsEqual: compares the value the instance was built with.
AssertIsEqualStale(this, v, options) ==
  IF IsEqualUtil(value0, v, options) THEN Pass
  ELSE Throw(<<this.assert.subject \o " doesn't match the expected value.",
               "", "Actual (+) vs (-) Expected:">>
             \o GenerateDiff(this.assert.actual, Stringify(v)))

\* this.assert.isEqual(value, options)
AssertIsEqual(this, v, options) ==
  IF IsEqualUtil(this.value, v, options) THEN Pass
  ELSE Throw(<<this.assert.subject \o " doesn't match the expected value.",
               "", "Actual (+) vs (-) Expected:">>
             \o GenerateDiff(this.assert.actual, Stringify(v)))

\* this.assert.notEqual(value, options)
AssertNotEqual(this, v, options) ==
  IF ~IsEqualUtil(this.value, v, options) THEN Pass
  ELSE Throw(<<this.assert.subject \o " matches the forbidden value.",
               "", "Forbidden:">> \o Stringify(v))

\* Mutant of AssertIsIn: one diff, against the first expected value.
AssertIsInOneDiff(this, vs, options) ==
  IF \E i \in 1..Len(vs) : IsEqualUtil(this.value, vs[i], options) THEN Pass
  ELSE Throw(<<this.assert.subject
                 \o " doesn't match any of the expected values.",
               "", "Actual (+) vs (-) Expected:">>
             \o Listify([i \in 1..(IF vs = <<>> THEN 0 ELSE 1) |->
                  GenerateDiff(this.assert.actual, Stringify(vs[i]))]))

\* Mutant of AssertIsIn: values.every in place of values.some.
AssertIsInEvery(this, vs, options) ==
  IF \A i \in 1..Len(vs) : IsEqualUtil(this.value, vs[i], options) THEN Pass
  ELSE Throw(<<this.assert.subject
                 \o " doesn't match any of the expected values.",
               "", "Actual (+) vs (-) Expected:">>
             \o Listify([i \in 1..Len(vs) |->
                  GenerateDiff(this.assert.actual, Stringify(vs[i]))]))

\* this.assert.isIn(values, options)
AssertIsIn(this, vs, options) ==
  IF \E i \in 1..Len(vs) : IsEqualUtil(this.value, vs[i], options) THEN Pass
  ELSE Throw(<<this.assert.subject
                 \o " doesn't match any of the expected values.",
               "", "Actual (+) vs (-) Expected:">>
             \o Listify([i \in 1..Len(vs) |->
                  GenerateDiff(this.assert.actual, Stringify(vs[i]))]))

\* this.assert.notIn(values, options): the first member equal to the value
\* throws; the members identical (===) to it get the '>' sign.
AssertNotIn(this, vs, options) ==
  LET hits == {i \in 1..Len(vs) : IsEqualUtil(this.value, vs[i], options)}
  IN  IF hits = {} THEN Pass
      ELSE LET k == CHOOSE i \in hits : \A j \in hits : i <= j
           IN  Throw(<<this.assert.subject
                         \o " matches one of the forbidden values.",
                       "", "Forbidden:">>
                     \o Listify([i \in 1..Len(vs) |->
                          PrefixBlock(Stringify(vs[i]),
                                      IF vs[i] = vs[k] THEN ">" ELSE " ")]))

\* ------------------------------------------------------------------ chain

\* What the closure pushed by an equality-family method captured: the method's
\* arguments (one value, or a list of values) and its options.
Check(kind, v, vs, options) ==
  [kind |-> kind, value |-> v, values |-> vs, options |-> options]

\* fn(): the closure calls the method of the bundle that this.assert holds
\* when it runs.
RunCheck(this, c) ==
  CASE c.kind = "isEqual" -> AssertIsEqual(this, c.value, c.options)
    [] c.kind = "notEqual" -> AssertNotEqual(this, c.value, c.options)
    [] c.kind = "isIn" -> AssertIsIn(this, c.values, c.options)
    [] OTHER -> AssertNotIn(this, c.values, c.options)

Step(what, i) == [step |-> what, index |-> i]

\* Mutant of RunChain: every check runs, and the last error is the one thrown.
RunChainAll(this, i) ==
  LET bad == {j \in i..Len(this.chain) : ~RunCheck(this, this.chain[j]).ok}
      last == CHOOSE j \in bad : \A k \in bad : k <= j
  IN  [ok |-> bad = {},
       error |-> IF bad = {} THEN NoError
                 ELSE RunCheck(this, this.chain[last]).error,
       trace |-> [j \in 1..(Len(this.chain) - i + 1) |-> Step("chain", i + j - 1)]]

RECURSIVE RunChain(_, _)
\* for (const fn of this.chain) fn(), from the i-th check on: the error of the
\* first check that throws, and the checks that ran.
RunChain(this, i) ==
  IF i > Len(this.chain) THEN [ok |-> TRUE, error |-> NoError, trace |-> <<>>]
  ELSE LET r == RunCheck(this, this.chain[i])
       IN  IF ~r.ok
           THEN [ok |-> FALSE, error |-> r.error, trace |-> <<Step("chain", i)>>]
           ELSE LET rest == RunChain(this, i + 1)
                IN  [rest EXCEPT !.trace = <<Step("chain", i)>> \o @]

\* ------------------------------------------------------------------ methods

\* What a call returned or threw, and the steps it took.
Returned(op, kind, v, trace) ==
  [op |-> op, kind |-> kind, value |-> v, error |-> NoError, trace |-> trace]
Thrown(op, err, trace) ==
  [op |-> op, kind |-> "throw", value |-> Undef, error |-> err, trace |-> trace]
\* return this.refine()
ReturnsThis(op) == Returned(op, "this", Undef, <<>>)

\* Mutant of Get: this.assert ??= this.buildAssert().
GetKeepsBundle(this) ==
  LET built == IF this.assert.built THEN this
               ELSE [this EXCEPT !.assert = BuildAssert(this)]
      t0 == <<Step("buildAssert", 0), Step("isRequired", 0)>>
      req == AssertIsRequired(built)
      run == RunChain(built, 1)
  IN  IF ~req.ok THEN [this |-> built, ret |-> Thrown("get", req.error, t0)]
      ELSE IF ~run.ok
      THEN [this |-> built, ret |-> Thrown("get", run.error, t0 \o run.trace)]
      ELSE [this |-> built,
            ret |-> Returned("get", "return", built.value, t0 \o run.trace)]

\* Mutant of Get: the chain is emptied once it has run.
GetConsumesChain(this) ==
  LET built == [this EXCEPT !.assert = BuildAssert(this)]
      t0 == <<Step("buildAssert", 0), Step("isRequired", 0)>>
      req == AssertIsRequired(built)
      run == RunChain(built, 1)
      done == [built EXCEPT !.chain = <<>>]
  IN  IF ~req.ok THEN [this |-> built, ret |-> Thrown("get", req.error, t0)]
      ELSE IF ~run.ok
      THEN [this |-> done, ret |-> Thrown("get", run.error, t0 \o run.trace)]
      ELSE [this |-> done,
            ret |-> Returned("get", "return", built.value, t0 \o run.trace)]

\* Mutant of Get: the deferred checks run before the presence check.
GetChainFirst(this) ==
  LET built == [this EXCEPT !.assert = BuildAssert(this)]
      run == RunChain(built, 1)
      req == AssertIsRequired(built)
      t0 == <<Step("buildAssert", 0)>> \o run.trace
  IN  IF ~run.ok THEN [this |-> built, ret |-> Thrown("get", run.error, t0)]
      ELSE IF ~req.ok
      THEN [this |-> built,
            ret |-> Thrown("get", req.error, t0 \o <<Step("isRequired", 0)>>)]
      ELSE [this |-> built,
            ret |-> Returned("get", "return", built.value,
                             t0 \o <<Step("isRequired", 0)>>)]

\* public get(): the instance after the call, and the call's outcome.
Get(this) ==
  LET built == [this EXCEPT !.assert = BuildAssert(this)]
      t0 == <<Step("buildAssert", 0), Step("isRequired", 0)>>
      req == AssertIsRequired(built)
      run == RunChain(built, 1)
  IN  IF ~req.ok THEN [this |-> built, ret |-> Thrown("get", req.error, t0)]
      ELSE IF ~run.ok
      THEN [this |-> built, ret |-> Thrown("get", run.error, t0 \o run.trace)]
      ELSE [this |-> built,
            ret |-> Returned("get", "return", built.value, t0 \o run.trace)]

\* Mutant of SetFallback: the value is tested before allowNull is written.
SetFallbackTestFirst(this, v, options) ==
  LET set == [this EXCEPT !.opts.allowNull = AllowNullOf(options)]
  IN  [this |-> IF IsValueMissing(this) THEN [set EXCEPT !.value = v] ELSE set,
       ret |-> ReturnsThis("setFallback")]

\* Mutant of SetFallback: allowNull is written only when options are given.
SetFallbackKeepsAllowNull(this, v, options) ==
  LET set == IF options.given
             THEN [this EXCEPT !.opts.allowNull = AllowNullOf(options)]
             ELSE this
  IN  [this |-> IF IsValueMissing(set) THEN [set EXCEPT !.value = v] ELSE set,
       ret |-> ReturnsThis("setFallback")]

\* public setFallback(value, options)
SetFallback(this, v, options) ==
  LET set == [this EXCEPT !.opts.allowNull = AllowNullOf(options)]
  IN  [this |-> IF IsValueMissing(set) THEN [set EXCEPT !.value = v] ELSE set,
       ret |-> ReturnsThis("setFallback")]

\* Mutant of IsRequired: allowNull is written only when options are given.
IsRequiredKeepsAllowNull(this, options) ==
  [this |-> [this EXCEPT !.opts.allowNull =
                           IF options.given THEN AllowNullOf(options) ELSE @,
                         !.opts.isRequired = TRUE],
   ret |-> ReturnsThis("isRequired")]

\* Mutant of IsRequired: the presence check is made at the call.
IsRequiredEager(this, options) ==
  LET set == [this EXCEPT !.opts.allowNull = AllowNullOf(options),
                          !.opts.isRequired = TRUE]
  IN  [this |-> set,
       ret |-> IF IsValueMissing(set)
               THEN Thrown("isRequired", AssertIsRequired(set).error, <<>>)
               ELSE ReturnsThis("isRequired")]

\* public isRequired(options)
IsRequired(this, options) ==
  [this |-> [this EXCEPT !.opts.allowNull = AllowNullOf(options),
                         !.opts.isRequired = TRUE],
   ret |-> ReturnsThis("isRequired")]

\* Mutant of NotRequired: the call clears opts.isRequired.
NotRequiredClears(this) ==
  [this |-> [this EXCEPT !.opts.isRequired = FALSE],
   ret |-> ReturnsThis("notRequired")]

\* public notRequired()
NotRequired(this) == [this |-> this, ret |-> ReturnsThis("notRequired")]

\* Mutant of Push: this.chain.unshift(fn).
PushFront(this, c) == [this EXCEPT !.chain = <<c>> \o @]

\* this.chain.push(fn)
Push(this, c) == [this EXCEPT !.chain = Append(@, c)]

\* public isEqual(value, options)
IsEqual(this, v, options) ==
  [this |-> Push(this, Check("isEqual", v, <<>>, options)),
   ret |-> ReturnsThis("isEqual")]

\* public notEqual(value, options)
NotEqual(this, v, options) ==
  [this |-> Push(this, Check("notEqual", v, <<>>, options)),
   ret |-> ReturnsThis("notEqual")]

\* public isIn(values, options)
IsIn(this, vs, options) ==
  [this |-> Push(this, Check("isIn", Undef, vs, options)),
   ret |-> ReturnsThis("isIn")]

\* public notIn(values, options)
NotIn(this, vs, options) ==
  [this |-> Push(this, Check("notIn", Undef, vs, options)),
   ret |-> ReturnsThis("notIn")]

\* ------------------------------------------------------------------ actions

\* The arguments the calls are made with.
Fallbacks == {Num5}
Expected == {Num5}
ExpectedLists == {<<Num6, Num5>>}

\* One entry of the call history.
Call(op, v, vs, nopt, eopt) ==
  [op |-> op, value |-> v, values |-> vs, nopt |-> nopt, eopt |-> eopt]

\* The call's effect on the instance, its outcome, and its history entry.
Do(r, c) ==
  /\ value' = r.this.value
  /\ name' = r.this.name
  /\ chain' = r.this.chain
  /\ assert' = r.this.assert
  /\ opts' = r.this.opts
  /\ ret' = r.ret
  /\ calls' = Append(calls, c)
  /\ UNCHANGED value0

CanCall == Len(calls) < MaxCalls

SetFallbackCall ==
  /\ CanCall
  /\ \E v \in Fallbacks, o \in NullableOptions :
       Do(SetFallback(This, v, o), Call("setFallback", v, <<>>, o, NoEqOptions))

IsRequiredCall ==
  /\ CanCall
  /\ \E o \in NullableOptions :
       Do(IsRequired(This, o), Call("isRequired", Undef, <<>>, o, NoEqOptions))

NotRequiredCall ==
  /\ CanCall
  /\ Do(NotRequired(This), Call("notRequired", Undef, <<>>, NoOptions, NoEqOptions))

IsEqualCall ==
  /\ CanCall
  /\ \E v \in Expected, o \in EqualityOptions :
       Do(IsEqual(This, v, o), Call("isEqual", v, <<>>, NoOptions, o))

NotEqualCall ==
  /\ CanCall
  /\ \E v \in Expected, o \in EqualityOptions :
       Do(NotEqual(This, v, o), Call("notEqual", v, <<>>, NoOptions, o))

IsInCall ==
  /\ CanCall
  /\ \E vs \in ExpectedLists, o \in EqualityOptions :
       Do(IsIn(This, vs, o), Call("isIn", Undef, vs, NoOptions, o))

NotInCall ==
  /\ CanCall
  /\ \E vs \in ExpectedLists, o \in EqualityOptions :
       Do(NotIn(This, vs, o), Call("notIn", Undef, vs, NoOptions, o))

\* get() is not a chain method: it leaves the history of calls as it is.
GetCall ==
  LET r == Get(This)
  IN  /\ value' = r.this.value
      /\ name' = r.this.name
      /\ chain' = r.this.chain
      /\ assert' = r.this.assert
      /\ opts' = r.this.opts
      /\ ret' = r.ret
      /\ UNCHANGED <<value0, calls>>

\* validate(value, name)
Init ==
  \E v \in InitValues, nm \in InitNames :
    /\ value = New(v, nm).value
    /\ name = New(v, nm).name
    /\ chain = New(v, nm).chain
    /\ assert = New(v, nm).assert
    /\ opts = New(v, nm).opts
    /\ value0 = v
    /\ calls = <<>>
    /\ ret = Returned("validate", "this", Undef, <<>>)

Next ==
  \/ SetFallbackCall
  \/ IsRequiredCall
  \/ NotRequiredCall
  \/ IsEqualCall
  \/ NotEqualCall
  \/ IsInCall
  \/ NotInCall
  \/ GetCall

Spec == Init /\ [][Next]_vars

\* ------------------------------------------------------------------ messages
\* A second specification, for the texts of the errors: values that are
\* objects, display names, and every list of up to MaxList members; the caller
\* makes at most one presence call, one fallback call and one equality-family
\* call, and here the history records the get() calls too.

MsgValues == {Undef, Num5, ObjA1}
MsgNames == {NoName, Named(""), Named("age")}
MsgMembers == {Num5, Str5, ObjA1, ObjA2}
MsgLists == UNION {[1..k -> MsgMembers] : k \in 0..MaxList}

GetOf == Call("get", Undef, <<>>, NoOptions, NoEqOptions)

MsgIsRequiredCall ==
  /\ ~opts.isRequired
  /\ Do(IsRequired(This, NoOptions),
        Call("isRequired", Undef, <<>>, NoOptions, NoEqOptions))

MsgSetFallbackCall ==
  /\ value = Undef
  /\ Do(SetFallback(This, Num5, NoOptions),
        Call("setFallback", Num5, <<>>, NoOptions, NoEqOptions))

MsgIsEqualCall ==
  /\ chain = <<>>
  /\ \E v \in MsgMembers, o \in EqualityOptions :
       Do(IsEqual(This, v, o), Call("isEqual", v, <<>>, NoOptions, o))

MsgNotEqualCall ==
  /\ chain = <<>>
  /\ \E v \in MsgMembers, o \in EqualityOptions :
       Do(NotEqual(This, v, o), Call("notEqual", v, <<>>, NoOptions, o))

MsgIsInCall ==
  /\ chain = <<>>
  /\ \E vs \in MsgLists, o \in EqualityOptions :
       Do(IsIn(This, vs, o), Call("isIn", Undef, vs, NoOptions, o))

MsgNotInCall ==
  /\ chain = <<>>
  /\ \E vs \in MsgLists, o \in EqualityOptions :
       Do(NotIn(This, vs, o), Call("notIn", Undef, vs, NoOptions, o))

\* get(), not twice in a row.
MsgGetCall ==
  /\ IF calls = <<>> THEN TRUE ELSE calls[Len(calls)].op # "get"
  /\ Do(Get(This), GetOf)

\* validate(value, name)
MsgInit ==
  \E v \in MsgValues, nm \in MsgNames :
    /\ value = New(v, nm).value
    /\ name = New(v, nm).name
    /\ chain = New(v, nm).chain
    /\ assert = New(v, nm).assert
    /\ opts = New(v, nm).opts
    /\ value0 = v
    /\ calls = <<>>
    /\ ret = Returned("validate", "this", Undef, <<>>)

MsgNext ==
  \/ MsgIsRequiredCall
  \/ MsgSetFallbackCall
  \/ MsgIsEqualCall
  \/ MsgNotEqualCall
  \/ MsgIsInCall
  \/ MsgNotInCall
  \/ MsgGetCall

SpecMsg == MsgInit /\ [][MsgNext]_vars

\* ------------------------------------------------------------------ claims

AfterGet == ret.op = "get"

\* The indices of the deferred checks a get() ran, in the order it ran them.
RanOf(trace) ==
  LET cs == SelectSeq(trace, LAMBDA e : e.step = "chain")
  IN  [i \in 1..Len(cs) |-> cs[i].index]

\* The deferred checks that fail against the current value.
Failing == {i \in 1..Len(chain) : ~RunCheck(This, chain[i]).ok}
FirstFailing == CHOOSE i \in Failing : \A j \in Failing : i <= j

\* The value is missing: undefined, or null while allowNull is false.
Missing == value = Undef \/ (value = Null /\ ~opts.allowNull)
PresencePasses == ~opts.isRequired \/ ~Missing

\* The message of the missing-value error for the current value.
MissingMessage ==
  TextCat(TextCat(<<Subject(name) \o " is required, but received ">>,
                  Stringify(value)), <<".">>)
ThrewMissing == ret.kind = "throw" /\ ret.error.message = MissingMessage

\* C1: a get() whose presence check passes runs the deferred checks in the
\* order they were appended, 1, 2, ..., and stops at the first one that fails:
\* it throws that check's error and runs no later check; with no failing check
\* it runs them all and returns.
C1_FifoFailFast ==
  (AfterGet /\ PresencePasses) =>
    IF Failing = {}
    THEN /\ RanOf(ret.trace) = [i \in 1..Len(chain) |-> i]
         /\ ret.kind = "return"
    ELSE /\ RanOf(ret.trace) = [i \in 1..FirstFailing |-> i]
         /\ ret.kind = "throw"
         /\ ret.error = RunCheck(This, chain[FirstFailing]).error

\* A get() stopped at the second of three checks, the first passing and the
\* third failing too, with another error.
C1_Witness ==
  /\ AfterGet /\ PresencePasses
  /\ Len(chain) = 3
  /\ Failing = {2, 3}
  /\ RunCheck(This, chain[2]).error # RunCheck(This, chain[3]).error
  /\ RanOf(ret.trace) = <<1, 2>>

\* The equality-family calls of the history, in order.
IsEqualityCall(c) == c.op \in {"isEqual", "notEqual", "isIn", "notIn"}
EqualityCalls == SelectSeq(calls, IsEqualityCall)

\* What the check appended by call c demands of the current value.
Holds(c) ==
  CASE c.op = "isEqual" -> IsEqualUtil(value, c.value, c.eopt)
    [] c.op = "notEqual" -> ~IsEqualUtil(value, c.value, c.eopt)
    [] c.op = "isIn" ->
         \E i \in 1..Len(c.values) : IsEqualUtil(value, c.values[i], c.eopt)
    [] OTHER ->
         \A i \in 1..Len(c.values) : ~IsEqualUtil(value, c.values[i], c.eopt)

\* The fallback values the setFallback calls of the history were given.
FallbacksGiven ==
  {calls[i].value : i \in {j \in 1..Len(calls) : calls[j].op = "setFallback"}}

\* C2: get() returns iff the presence check passes and the check of every
\* equality-family call holds of the value, with the arguments and options of
\* that call; it then returns the current value, which is the original value
\* or a fallback; otherwise it throws.
C2_ReturnsIffAllHold ==
  AfterGet =>
    /\ ret.kind \in {"return", "throw"}
    /\ (ret.kind = "return") <=>
         /\ PresencePasses
         /\ \A i \in 1..Len(EqualityCalls) : Holds(EqualityCalls[i])
    /\ (ret.kind = "return") =>
         /\ ret.value = value
         /\ value \in {value0} \cup FallbacksGiven

\* A get() that returned the fallback after two checks that hold of it.
C2_Witness ==
  /\ AfterGet /\ ret.kind = "return"
  /\ value0 = Undef /\ ret.value = Num5
  /\ Len(chain) = 2
  /\ chain[1].kind = "isIn" /\ chain[2].kind = "isEqual"

\* C3: with isRequired set, get() throws the missing-value error exactly when
\* the value is undefined, or null while allowNull is false; with isRequired
\* unset it never throws that error.
C3_MissingExactly ==
  AfterGet =>
    (ThrewMissing <=>
       (opts.isRequired /\ (value = Undef \/ (value = Null /\ ~opts.allowNull))))

\* A required null passed the presence check because allowNull was set.
C3_Witness ==
  /\ AfterGet /\ opts.isRequired /\ opts.allowNull
  /\ value = Null /\ ret.kind = "return" /\ ret.value = Null

\* The last call of the history, when there is one.
LastCall == calls[Len(calls)]
JustCalled(op) == calls # <<>> /\ ret.op = op /\ LastCall.op = op

\* The history is exactly this sequence of calls.
SetFallbackOf(v, o) == Call("setFallback", v, <<>>, o, NoEqOptions)
IsRequiredOf(o) == Call("isRequired", Undef, <<>>, o, NoEqOptions)
IsEqualOf(v, o) == Call("isEqual", v, <<>>, NoOptions, o)

\* A step that is a setFallback(c.value, c.nopt) call.
SetFallbackStep(c) == calls' = Append(calls, c) /\ c.op = "setFallback"

\* The allowNull a call's options give: true only when the field is true.
Given(o) == o = AllowNull(TRUE)

\* C4: setFallback(f, options) sets allowNull from the options (false when
\* omitted) and replaces the value with f exactly when the value is undefined,
\* or null with that allowNull false; otherwise the value stays.  So
\* validate(undefined).setFallback(5).isRequired().get() returns 5 and
\* validate(v).setFallback(5).get() returns v for a v that is not missing.
C4_Step ==
  \A c \in {Call("setFallback", v, <<>>, o, NoEqOptions) :
              v \in Fallbacks, o \in NullableOptions} :
    SetFallbackStep(c) =>
      /\ opts'.allowNull = Given(c.nopt)
      /\ opts'.isRequired = opts.isRequired
      /\ value' = IF value = Undef \/ (value = Null /\ ~Given(c.nopt))
                  THEN c.value ELSE value
      /\ ret'.kind = "this"

C4_Examples ==
  /\ (AfterGet /\ value0 = Undef
        /\ calls = <<SetFallbackOf(Num5, NoOptions), IsRequiredOf(NoOptions)>>)
       => (ret.kind = "return" /\ ret.value = Num5)
  /\ (AfterGet /\ value0 = Str5 /\ calls = <<SetFallbackOf(Num5, NoOptions)>>)
       => (ret.kind = "return" /\ ret.value = Str5)

\* C4: every setFallback step is as C4_Step says, and the two example chains
\* end as C4_Examples says.
C4_SetFallback == [][C4_Step]_vars /\ []C4_Examples

\* setFallback(5) has just replaced a null that the allowNull: true of an
\* earlier isRequired protected: its own allowNull, false, decided.
C4_Witness ==
  /\ JustCalled("setFallback")
  /\ calls = <<IsRequiredOf(AllowNull(TRUE)), SetFallbackOf(Num5, NoOptions)>>
  /\ value0 = Null /\ value = Num5 /\ ~opts.allowNull

\* The isRequired calls of the history without, and with, allowNull: true.
RequiredPlain ==
  \E i \in 1..Len(calls) : calls[i].op = "isRequired" /\ ~Given(calls[i].nopt)
RequiredAllowingNull ==
  \E i \in 1..Len(calls) : calls[i].op = "isRequired" /\ Given(calls[i].nopt)

\* C5: once isRequired() was called without allowNull: true, get() returns
\* neither undefined nor null, whatever the other calls; once
\* isRequired({allowNull: true}) was called, get() does not return undefined.
C5_RequiredNeverNullish ==
  (AfterGet /\ ret.kind = "return") =>
    /\ RequiredPlain => ret.value \notin {Undef, Null}
    /\ RequiredAllowingNull => ret.value # Undef

\* The presence-family calls that write allowNull, in order.
WritesAllowNull(c) == c.op \in {"isRequired", "setFallback"}
NullableCalls == SelectSeq(calls, WritesAllowNull)

\* setFallback(f, {allowNull: a}) was followed by isRequired() without
\* options, with no other write of allowNull between or after them.
FallbackThenRequired ==
  /\ Len(NullableCalls) >= 2
  /\ NullableCalls[Len(NullableCalls) - 1].op = "setFallback"
  /\ NullableCalls[Len(NullableCalls)] = IsRequiredOf(NoOptions)
FallbackAllowNull == Given(NullableCalls[Len(NullableCalls) - 1].nopt)

\* C6 as stated: after setFallback(f, {allowNull: a}) and then isRequired()
\* without options, get() treats a null value as missing exactly when a is
\* false.
C6_AsStated ==
  (AfterGet /\ FallbackThenRequired /\ value = Null) =>
    (ThrewMissing <=> ~FallbackAllowNull)

\* C6 amended: after setFallback(f, {allowNull: a}) and then isRequired()
\* without options, get() treats a null value as missing whatever a was,
\* because isRequired() wrote its own default, false; the setFallback setting
\* decides only while setFallback is the last call that wrote allowNull.
C6_LastWriteDecides ==
  /\ (AfterGet /\ FallbackThenRequired /\ value = Null) => ThrewMissing
  /\ (AfterGet /\ opts.isRequired /\ value = Null /\ NullableCalls # <<>>
        /\ NullableCalls[Len(NullableCalls)].op = "setFallback")
       => (ThrewMissing <=> ~Given(NullableCalls[Len(NullableCalls)].nopt))

\* A null kept by setFallback(f, {allowNull: true}) is missing for the
\* isRequired() that follows.
C6_Witness ==
  /\ AfterGet /\ FallbackThenRequired /\ FallbackAllowNull
  /\ value = Null /\ ThrewMissing

\* C7: allowNull is the allowNull option (false when omitted) of the most
\* recent isRequired or setFallback call, and false when there was none;
\* isRequired is set exactly when isRequired() was called.
C7_LastWriteWins ==
  /\ opts.allowNull =
       IF NullableCalls = <<>> THEN FALSE
       ELSE Given(NullableCalls[Len(NullableCalls)].nopt)
  /\ opts.isRequired <=> \E i \in 1..Len(calls) : calls[i].op = "isRequired"

\* Three writes of allowNull, true, then omitted, then true, by both methods.
C7_Witness ==
  /\ Len(NullableCalls) = 3
  /\ Given(NullableCalls[1].nopt) /\ ~Given(NullableCalls[2].nopt)
  /\ NullableCalls[2].op # NullableCalls[3].op
  /\ Given(NullableCalls[3].nopt) /\ opts.allowNull

\* The instance a chain-method call of the history leaves.
Apply(this, c) ==
  CASE c.op = "setFallback" -> SetFallback(this, c.value, c.nopt).this
    [] c.op = "isRequired" -> IsRequired(this, c.nopt).this
    [] c.op = "notRequired" -> NotRequired(this).this
    [] c.op = "isEqual" -> IsEqual(this, c.value, c.eopt).this
    [] c.op = "notEqual" -> NotEqual(this, c.value, c.eopt).this
    [] c.op = "isIn" -> IsIn(this, c.values, c.eopt).this
    [] OTHER -> NotIn(this, c.values, c.eopt).this

RECURSIVE Replay(_, _)
\* The instance after the calls cs, made in order on this.
Replay(this, cs) ==
  IF cs = <<>> THEN this ELSE Replay(Apply(this, Head(cs)), Tail(cs))

\* The calls of the history with every equality-family call moved after the
\* other calls, and with every one moved before them.
EqualityLast == SelectSeq(calls, LAMBDA c : ~IsEqualityCall(c)) \o EqualityCalls
EqualityFirst == EqualityCalls \o SelectSeq(calls, LAMBDA c : ~IsEqualityCall(c))

\* C8: a deferred check reads the value when get() runs it:
\* validate(undefined).isEqual(5).setFallback(5).get() returns 5, and get()
\* has the outcome it has when the same setFallback and presence calls are
\* all made before, or all made after, the same equality-family calls.
C8_ReadAtExecution ==
  /\ (AfterGet /\ value0 = Undef
        /\ calls = <<IsEqualOf(Num5, NoEqOptions), SetFallbackOf(Num5, NoOptions)>>)
       => (ret.kind = "return" /\ ret.value = Num5)
  /\ AfterGet =>
       /\ Get(Replay(New(value0, name), EqualityLast)).ret = ret
       /\ Get(Replay(New(value0, name), EqualityFirst)).ret = ret

\* A check appended while the value was still undefined passed on the
\* fallback that a later setFallback put in.
C8_Witness ==
  /\ AfterGet /\ value0 = Undef
  /\ calls = <<IsEqualOf(Num5, NoEqOptions), SetFallbackOf(Num5, NoOptions)>>
  /\ ret.kind = "return" /\ ret.value = Num5

\* C9: get() runs the presence check before any deferred check: its steps are
\* buildAssert, isRequired, then deferred checks only; and when the value is
\* missing and isRequired is set it throws the missing-value error without
\* running a deferred check, wherever isRequired() was called.
C9_PresenceFirst ==
  AfterGet =>
    /\ Len(ret.trace) >= 2
    /\ ret.trace[2] = Step("isRequired", 0)
    /\ \A i \in 1..Len(ret.trace) : ret.trace[i].step = "chain" => i > 2
    /\ (opts.isRequired /\ Missing) =>
         /\ ThrewMissing
         /\ RanOf(ret.trace) = <<>>

\* isRequired() was called after a check that fails was appended; get() threw
\* the missing-value error and ran no check.
C9_Witness ==
  /\ AfterGet /\ opts.isRequired /\ Missing
  /\ Len(calls) >= 2 /\ IsEqualityCall(calls[1]) /\ LastCall.op = "isRequired"
  /\ 1 \in Failing
  /\ ThrewMissing /\ RanOf(ret.trace) = <<>>

\* The check an equality-family call appends.
CheckOf(c) ==
  Check(c.op, IF c.op \in {"isEqual", "notEqual"} THEN c.value ELSE Undef,
        IF c.op \in {"isIn", "notIn"} THEN c.values ELSE <<>>, c.eopt)

\* C10: no chain method throws or evaluates anything when called: each
\* returns the instance; an equality-family call appends exactly its one check
\* at the end of the chain and the other calls leave the chain alone; so
\* validate(undefined).isRequired().setFallback(5).get() returns 5.
C10_Step ==
  (calls' # calls) =>
    /\ ret'.kind = "this"
    /\ chain' = IF IsEqualityCall(calls'[Len(calls')])
                THEN Append(chain, CheckOf(calls'[Len(calls')]))
                ELSE chain

C10_State ==
  /\ ~AfterGet => ret.kind = "this"
  /\ (AfterGet /\ value0 = Undef
        /\ calls = <<IsRequiredOf(NoOptions), SetFallbackOf(Num5, NoOptions)>>)
       => (ret.kind = "return" /\ ret.value = Num5)

\* C10: every chain-method step is as C10_Step says, and every state as
\* C10_State says.
C10_NothingAtCallTime == [][C10_Step]_vars /\ []C10_State

\* isRequired() on undefined returned the instance, and the later setFallback
\* rescued the value: get() returned the fallback.
C10_Witness ==
  /\ AfterGet /\ value0 = Undef
  /\ calls = <<IsRequiredOf(NoOptions), SetFallbackOf(Num5, NoOptions)>>
  /\ ret.kind = "return" /\ ret.value = Num5

\* C11: a second get() with no chain call in between has the outcome of the
\* first, the same returned value or the same error, and leaves the instance
\* as the first left it.
C11_GetIdempotent ==
  AfterGet =>
    /\ Get(This).ret = ret
    /\ Get(This).this = This

\* get() threw on a fallback that a check forbids; the next get() throws the
\* same error.
C11_Witness ==
  /\ AfterGet /\ ret.kind = "throw"
  /\ value0 = Undef /\ value = Num5
  /\ Len(chain) = 2 /\ chain[2].kind = "notEqual"
  /\ Get(This).ret.error = ret.error

\* The history without its notRequired() calls.
WithoutNotRequired == SelectSeq(calls, LAMBDA c : c.op # "notRequired")
NotRequiredCalled == \E i \in 1..Len(calls) : calls[i].op = "notRequired"

RequiredThenNotRequired ==
  \E j \in 1..Len(calls) :
    /\ calls[j].op = "notRequired"
    /\ \E i \in 1..(j - 1) : calls[i].op = "isRequired"
    /\ \A k \in (j + 1)..Len(calls) : calls[k].op # "isRequired"

ChainCallStep(ops) == calls' # calls /\ calls'[Len(calls')].op \in ops
GetStep == calls' = calls /\ ret'.op = "get"

\* C18: the value changes only in a setFallback that found it missing, and
\* becomes the fallback; the name never changes; isRequired changes only the
\* options; an equality-family call changes only the chain, by one element at
\* the end; get() changes none of value, name, options and chain; and no step
\* shortens or reorders the chain.
C18_Step ==
  /\ name' = name
  /\ value' # value =>
       /\ ChainCallStep({"setFallback"})
       /\ value = Undef \/ (value = Null /\ ~opts'.allowNull)
       /\ value' = calls'[Len(calls')].value
  /\ ChainCallStep({"isRequired"}) => UNCHANGED <<value, name, chain, assert>>
  /\ ChainCallStep({"setFallback", "notRequired"}) => UNCHANGED <<name, chain, assert>>
  /\ ChainCallStep({"isEqual", "notEqual", "isIn", "notIn"}) =>
       /\ UNCHANGED <<value, name, opts, assert>>
       /\ Len(chain') = Len(chain) + 1
  /\ GetStep => UNCHANGED <<value, name, opts, chain>>
  /\ Len(chain') >= Len(chain)
  /\ SubSeq(chain', 1, Len(chain)) = chain

\* C18: every step is as C18_Step says.
C18_Frame == [][C18_Step]_vars

\* A get() threw with two different checks in the chain, after a fallback
\* had replaced the value: chain and value are as the calls left them.
C18_Witness ==
  /\ AfterGet /\ ret.kind = "throw"
  /\ value0 = Null /\ value = Num5
  /\ Len(chain) = 2 /\ chain[1] # chain[2]
  /\ chain = [i \in 1..2 |-> CheckOf(EqualityCalls[i])]

\* ------------------------------------------------------------------ texts of the errors

\* The text s starts with the text p.
StartsWith(s, p) == Len(s) >= Len(p) /\ SubSeq(s, 1, Len(p)) = p

\* The entries of a rendered list: its lines that start with the bullet.
Entries(lines) == {i \in 1..Len(lines) : StartsWith(lines[i], "* ")}

\* The single deferred check of SpecMsg failed in the get() just made.
CheckFailed(kind) ==
  /\ AfterGet /\ PresencePasses /\ ret.kind = "throw"
  /\ chain # <<>> /\ chain[1].kind = kind

\* The lines of the error after its verdict line, blank line and title.
Detail == SubSeq(ret.error.message, 4, Len(ret.error.message))

\* The diff of the current value's text against each member's text.
DiffsAgainst(vs) ==
  [i \in 1..Len(vs) |-> GenerateDiff(Stringify(value), Stringify(vs[i]))]

\* A get() of the history was followed by a setFallback.
GetThenFallback ==
  \E i \in 1..Len(calls) : \E j \in (i + 1)..Len(calls) :
    calls[i].op = "get" /\ calls[j].op = "setFallback"

\* C12: every get() builds the bundle once, as its first step, from the value
\* its checks compare: the actual text of the missing-value error and of every
\* diff block is the text of the current value, also when a setFallback
\* replaced the value after an earlier get().
C12_ErrorsShowFinalValue ==
  AfterGet =>
    /\ assert.built /\ assert.actual = Stringify(value)
    /\ ret.trace[1] = Step("buildAssert", 0)
    /\ Len(SelectSeq(ret.trace, LAMBDA e : e.step = "buildAssert")) = 1
    /\ (opts.isRequired /\ Missing) => ret.error.message = MissingMessage
    /\ CheckFailed("isEqual") =>
         Detail = GenerateDiff(Stringify(value), Stringify(chain[1].value))
    /\ CheckFailed("isIn") =>
         Detail = Listify(DiffsAgainst(chain[1].values))

\* A first get() built its bundle for undefined; setFallback then put 5 in,
\* and the second get() threw with two diff blocks, both against "5".
C12_Witness ==
  /\ CheckFailed("isIn") /\ GetThenFallback
  /\ value0 = Undef /\ value = Num5
  /\ Len(chain[1].values) = 2
  /\ assert.actual = <<"5">>

\* C15 as stated: when notIn(S) fails, the list has one entry per member of S,
\* in order, and an entry has the distinct marker exactly when its member
\* equals the value under the comparator and the options of the check.
C15_MarkerIffMatches ==
  CheckFailed("notIn") =>
    /\ ret.error.message[1]
         = Subject(name) \o " matches one of the forbidden values."
    /\ Detail =
         Listify([i \in 1..Len(chain[1].values) |->
           PrefixBlock(Stringify(chain[1].values[i]),
                       IF IsEqualUtil(value, chain[1].values[i], chain[1].options)
                       THEN ">" ELSE " ")])

\* C16: when isIn(S) fails, the error has exactly one diff block per member
\* of S, in the order of S, each the diff of the actual text against the text
\* of that member; the blocks are as many as S is long.
C16_OneDiffPerMember ==
  CheckFailed("isIn") =>
    LET S == chain[1].values
        blocks == DiffsAgainst(S)
    IN  /\ SubSeq(ret.error.message, 1, 3)
             = <<Subject(name) \o " doesn't match any of the expected values.",
                 "", "Actual (+) vs (-) Expected:">>
        /\ Detail = JoinLines([i \in 1..Len(S) |-> PrefixBlock(blocks[i], "*")])
        /\ Cardinality(Entries(Detail)) = Len(S)

\* isIn failed on an object against two members, a number and a string:
\* two blocks, of several lines.
C16_Witness ==
  /\ CheckFailed("isIn")
  /\ value = ObjA1 /\ Len(chain[1].values) = 2
  /\ chain[1].values[1] = Num5 /\ chain[1].values[2] = Str5
  /\ Cardinality(Entries(Detail)) = 2 /\ Len(Detail) > 2

\* C17 as stated: the subject of every error is "The value of '<name>'"
\* whenever a name was supplied, for every string, and "The validated value"
\* only when none was supplied.
C17_AsStated ==
  (AfterGet /\ ret.kind = "throw") =>
    StartsWith(ret.error.message[1],
               IF name.given THEN "The value of '" \o name.text \o "' "
               ELSE "The validated value ")

\* C17 amended: the subject of every error is "The value of '<name>'"
\* whenever a name that is not the empty string was supplied, and "The
\* validated value" when no name, or the empty string, was supplied.
C17_SubjectOfNonEmptyName ==
  (AfterGet /\ ret.kind = "throw") =>
    StartsWith(ret.error.message[1],
               IF name.given /\ name.text # ""
               THEN "The value of '" \o name.text \o "' "
               ELSE "The validated value ")

\* An error of an instance that was given the empty string as its name.
C17_Witness ==
  /\ AfterGet /\ ret.kind = "throw"
  /\ name = Named("")
  /\ StartsWith(ret.error.message[1], "The validated value ")

\* C19: for every value, isIn([]) fails at get() with the no-match error and
\* no diff block, and notIn([]) passes.
C19_EmptyLists ==
  (AfterGet /\ PresencePasses /\ chain # <<>> /\ chain[1].values = <<>>) =>
    /\ chain[1].kind = "isIn" =>
         /\ ret.kind = "throw"
         /\ ret.error.message
              = <<Subject(name) \o " doesn't match any of the expected values.",
                  "", "Actual (+) vs (-) Expected:", "">>
         /\ Entries(Detail) = {}
    /\ chain[1].kind = "notIn" => (ret.kind = "return" /\ ret.value = value)

\* isIn([]) threw for an object.
C19_Witness ==
  /\ CheckFailed("isIn") /\ chain[1].values = <<>>
  /\ value = ObjA1 /\ Entries(Detail) = {}

====
